---------------------------- MODULE Spec2Model ----------------------------
(***************************************************************************)
(* A model of the Starknet binary Merkle-Patricia tree of                  *)
(* primitives/starknet/src/crypto/merkle_patricia_tree/merkle_tree.rs.     *)
(*                                                                         *)
(* The in-memory tree of Rc<RefCell<Node>> handles is a nested record; a   *)
(* handle is the address of a node, the sequence of steps ("left",         *)
(* "right", "child") that leads to it from the root.  The tree never       *)
(* shares a handle between two parents, so rewriting the node at an        *)
(* address is what RefCell::swap on the handle does.                       *)
(*                                                                         *)
(* A field element is a finite sequence of naturals: <<v>> is the integer  *)
(* v, and the hasher builds a longer sequence from its two arguments, so   *)
(* that the hash is collision free, as the tree assumes of its hasher.     *)
(***************************************************************************)
EXTENDS Integers, Sequences, FiniteSets, TLC

\* Length of a key in bits (max_height of the tree).
MaxHeight == 3
\* Keys are the MaxHeight-bit numbers 0 .. NumKeys-1.
NumKeys == 5
\* Leaf values are 1 .. MaxVal; 0 is FieldElement::ZERO.
MaxVal == 2
\* Number of public operations in a behaviour.
MaxOps == 4
\* The one call at which a dfs visitor answers other than ContinueDeeper is
\* among the first MaxAt calls.
MaxAt == 3

VARIABLES
    root,      \* MerkleTree.root: the in-memory tree
    storage,   \* MerkleTree.storage: persisted nodes and reference counts
    kv,        \* ghost: the key -> value map the operations so far describe
    last,      \* ghost: the last public operation and what it observed
    log,       \* ghost: the storage calls of the last public operation
    roots,     \* ghost: the map held at each commit, by the root hash returned
    aborted,   \* a panic (unwrap, expect, unreachable!) ended the program
    steps      \* number of public operations so far

vars == <<root, storage, kv, last, log, roots, aborted, steps>>

---------------------------------------------------------------------------
(* Field elements and the hasher *)

ZERO == <<0>>
\* Option<FieldElement>::None
None == <<>>
Felt(v) == <<v>>

\* CryptoHasher::hash, a collision-free two-to-one function.
Hash(a, b) == <<0, Len(a)>> \o a \o b
\* Field addition of a small integer to a field element.
FeltAdd(h, n) == [h EXCEPT ![1] = @ + n]

RECURSIVE BitsToInt(_)
BitsToInt(bits) ==
    IF bits = <<>> THEN 0
    ELSE 2 * BitsToInt(SubSeq(bits, 1, Len(bits) - 1)) + bits[Len(bits)]

RECURSIVE IntToBits(_, _)
IntToBits(n, len) ==
    IF len = 0 THEN <<>>
    ELSE Append(IntToBits(n \div 2, len - 1), n % 2)

Keys == {IntToBits(i, MaxHeight) : i \in 0 .. NumKeys - 1}
Values == {Felt(v) : v \in 0 .. MaxVal}

---------------------------------------------------------------------------
(* merkle_node: Node, BinaryNode, EdgeNode, Direction *)

Unresolved(hash) == [t |-> "Unresolved", hash |-> hash]
Leaf(value) == [t |-> "Leaf", value |-> value]
BinaryNode(hash, height, left, right) ==
    [t |-> "Binary", hash |-> hash, height |-> height, left |-> left, right |-> right]
EdgeNode(hash, height, path, child) ==
    [t |-> "Edge", hash |-> hash, height |-> height, path |-> path, child |-> child]
\* The outcome of an operation that panicked.
Panic == [t |-> "Panic"]

\* Node::is_empty
is_empty(node) == node.t = "Unresolved" /\ node.hash = ZERO

\* Node::hash
hash(node) ==
    CASE node.t = "Unresolved" -> node.hash
      [] node.t = "Leaf" -> node.value
      [] OTHER -> node.hash

\* Node::mark_dirty
mark_dirty(node) ==
    IF node.t \in {"Binary", "Edge"} THEN [node EXCEPT !.hash = None] ELSE node

\* Direction::from(bool): false -> Left, true -> Right
DirectionFrom(bit) == IF bit = 0 THEN "left" ELSE "right"
\* Direction::invert
invert(dir) == IF dir = "left" THEN "right" ELSE "left"
\* bool::from(Direction)
BitFrom(dir) == IF dir = "left" THEN 0 ELSE 1

\* BinaryNode::direction
direction(binary, key) == DirectionFrom(key[binary.height + 1])
\* BinaryNode::get_child
get_child(binary, dir) == IF dir = "left" THEN binary.left ELSE binary.right

\* EdgeNode::path_matches
path_matches(edge, key) ==
    edge.path = SubSeq(key, edge.height + 1, edge.height + Len(edge.path))

\* EdgeNode::common_path
common_path(edge, key) ==
    LET n == IF Len(edge.path) < Len(key) - edge.height
             THEN Len(edge.path) ELSE Len(key) - edge.height
        agree == {i \in 0 .. n :
                    \A j \in 1 .. i : edge.path[j] = key[edge.height + j]}
        len == CHOOSE i \in agree : \A j \in agree : j <= i
    IN SubSeq(edge.path, 1, len)

\* BinaryNode::calculate_hash
binary_calculate_hash(left, right) == Hash(left, right)
\* EdgeNode::calculate_hash
edge_calculate_hash(child, path) ==
    FeltAdd(Hash(child, Felt(BitsToInt(path))), Len(path))

---------------------------------------------------------------------------
(* Handles *)

RECURSIVE NodeAt(_, _)
NodeAt(tree, addr) ==
    IF addr = <<>> THEN tree ELSE NodeAt(tree[Head(addr)], Tail(addr))

RECURSIVE ReplaceAt(_, _, _)
ReplaceAt(tree, addr, node) ==
    IF addr = <<>> THEN node
    ELSE [tree EXCEPT ![Head(addr)] = ReplaceAt(@, Tail(addr), node)]

\* The mark_dirty loops of set and delete_leaf marking nothing
MarkDirtyAll_none(tree, nodes) == tree

\* The mark_dirty loops of set and delete_leaf skipping the root
RECURSIVE MarkDirtyAll_below_root(_, _)
MarkDirtyAll_below_root(tree, nodes) ==
    IF nodes = <<>> THEN tree
    ELSE IF Head(nodes) = <<>> THEN MarkDirtyAll_below_root(tree, Tail(nodes))
    ELSE MarkDirtyAll_below_root(
             ReplaceAt(tree, Head(nodes), mark_dirty(NodeAt(tree, Head(nodes)))),
             Tail(nodes))

RECURSIVE MarkDirtyAll(_, _)
MarkDirtyAll(tree, nodes) ==
    IF nodes = <<>> THEN tree
    ELSE MarkDirtyAll(ReplaceAt(tree, Head(nodes), mark_dirty(NodeAt(tree, Head(nodes)))),
                      Tail(nodes))

Last(s) == s[Len(s)]

---------------------------------------------------------------------------
(* NodeStorage *)

EmptyStorage == [nodes |-> <<>>, refs |-> <<>>]

PersistedBinaryNode(left, right) == [t |-> "Binary", left |-> left, right |-> right]
PersistedEdgeNode(path, child) == [t |-> "Edge", path |-> path, child |-> child]

\* NodeStorage::upsert: insert, or ignore if the key exists; no reference count.
upsert(st, key, node) ==
    IF key \in DOMAIN st.nodes THEN st
    ELSE [st EXCEPT !.nodes = (key :> node) @@ @]

\* NodeStorage::increment_ref_count
increment_ref_count(st, key) ==
    IF key \in DOMAIN st.refs THEN [st EXCEPT !.refs[key] = @ + 1]
    ELSE [st EXCEPT !.refs = (key :> 1) @@ @]

---------------------------------------------------------------------------
(* MerkleTree *)

\* resolve that hands the two children of a stored Binary record out swapped
resolve_children_swapped(st, h, height) ==
    IF height = MaxHeight THEN Leaf(h)
    ELSE IF h \notin DOMAIN st.nodes THEN Panic
    ELSE LET p == st.nodes[h] IN
         IF p.t = "Binary"
         THEN BinaryNode(h, height, Unresolved(p.right), Unresolved(p.left))
         ELSE EdgeNode(h, height, p.path, Unresolved(p.child))

\* resolve that builds the node it loads without its hash
resolve_dirty(st, h, height) ==
    IF height = MaxHeight THEN Leaf(h)
    ELSE IF h \notin DOMAIN st.nodes THEN Panic
    ELSE LET p == st.nodes[h] IN
         IF p.t = "Binary"
         THEN BinaryNode(None, height, Unresolved(p.left), Unresolved(p.right))
         ELSE EdgeNode(None, height, p.path, Unresolved(p.child))

\* MerkleTree::resolve
resolve(st, h, height) ==
    IF height = MaxHeight THEN Leaf(h)
    ELSE IF h \notin DOMAIN st.nodes THEN Panic
    ELSE LET p == st.nodes[h] IN
         IF p.t = "Binary"
         THEN BinaryNode(h, height, Unresolved(p.left), Unresolved(p.right))
         ELSE EdgeNode(h, height, p.path, Unresolved(p.child))

\* The loop of traverse following an Edge without comparing its path
RECURSIVE traverse_loop_edge_followed(_, _, _, _, _, _)
traverse_loop_edge_followed(st, tree, current, height, nodes, dst) ==
    LET cur == NodeAt(tree, current) IN
    CASE cur.t = "Unresolved" ->
           LET node == resolve(st, cur.hash, height) IN
           IF node = Panic THEN [root |-> tree, nodes |-> nodes, ok |-> FALSE]
           ELSE traverse_loop_edge_followed(st, ReplaceAt(tree, current, node), current,
                                            height, nodes, dst)
      [] cur.t = "Binary" ->
           traverse_loop_edge_followed(st, tree, Append(current, direction(cur, dst)),
                                       height + 1, Append(nodes, current), dst)
      [] cur.t = "Edge" ->
           traverse_loop_edge_followed(st, tree, Append(current, "child"),
                                       height + Len(cur.path), Append(nodes, current), dst)
      [] OTHER -> [root |-> tree, nodes |-> Append(nodes, current), ok |-> TRUE]

RECURSIVE traverse_loop(_, _, _, _, _, _)
traverse_loop(st, tree, current, height, nodes, dst) ==
    LET cur == NodeAt(tree, current) IN
    CASE cur.t = "Unresolved" ->
           LET node == resolve(st, cur.hash, height) IN
           IF node = Panic THEN [root |-> tree, nodes |-> nodes, ok |-> FALSE]
           ELSE traverse_loop(st, ReplaceAt(tree, current, node), current, height, nodes, dst)
      [] cur.t = "Binary" ->
           traverse_loop(st, tree, Append(current, direction(cur, dst)), height + 1,
                         Append(nodes, current), dst)
      [] cur.t = "Edge" /\ path_matches(cur, dst) ->
           traverse_loop(st, tree, Append(current, "child"), height + Len(cur.path),
                         Append(nodes, current), dst)
      [] OTHER -> [root |-> tree, nodes |-> Append(nodes, current), ok |-> TRUE]

\* A traverse that resolves into nodes of its own and leaves the tree as it was
traverse_detached(st, tree, dst) ==
    IF is_empty(tree) THEN [root |-> tree, nodes |-> <<>>, ok |-> TRUE]
    ELSE [traverse_loop(st, tree, <<>>, 0, <<>>, dst) EXCEPT !.root = tree]

\* MerkleTree::traverse: the tree with the nodes it resolved, and the handles visited
traverse(st, tree, dst) ==
    IF is_empty(tree) THEN [root |-> tree, nodes |-> <<>>, ok |-> TRUE]
    ELSE traverse_loop(st, tree, <<>>, 0, <<>>, dst)

\* A merge_edges that never loads the child: an Unresolved child is left alone.
merge_edges_unresolved_kept(st, parent) ==
    IF parent.child.t = "Edge"
    THEN [parent EXCEPT !.path = @ \o parent.child.path, !.child = parent.child.child]
    ELSE parent

\* A merge_edges that takes over the child's child but not the child's path.
merge_edges_path_kept(st, parent) ==
    LET resolved_child ==
            IF parent.child.t = "Unresolved"
            THEN resolve(st, parent.child.hash, parent.height + Len(parent.path))
            ELSE parent.child
    IN IF resolved_child = Panic THEN Panic
       ELSE IF resolved_child.t = "Edge"
       THEN [parent EXCEPT !.child = resolved_child.child]
       ELSE parent

\* MerkleTree::merge_edges
merge_edges(st, parent) ==
    LET resolved_child ==
            IF parent.child.t = "Unresolved"
            THEN resolve(st, parent.child.hash, parent.height + Len(parent.path))
            ELSE parent.child
    IN IF resolved_child = Panic THEN Panic
       ELSE IF resolved_child.t = "Edge"
       THEN [parent EXCEPT !.path = @ \o resolved_child.path,
                           !.child = resolved_child.child]
       ELSE parent

\* A new branch whose path starts at the binary node instead of below it.
set_new_from_branch(key, child_height, value) ==
    LET new_path == SubSeq(key, child_height, Len(key)) IN
    IF new_path = <<>> THEN Leaf(value)
    ELSE EdgeNode(None, child_height, new_path, Leaf(value))

\* MerkleTree::set, the new leaf branch of the binary node (lines 307-326)
set_new(key, child_height, value) ==
    LET new_path == SubSeq(key, child_height + 1, Len(key))
        new_leaf == Leaf(value)
    IN IF new_path = <<>> THEN new_leaf
       ELSE EdgeNode(None, child_height, new_path, new_leaf)

\* The existing child branch with the bits of its path inverted
set_old_inverted(edge, common, child_height) ==
    LET old_path == SubSeq(edge.path, Len(common) + 2, Len(edge.path)) IN
    IF old_path = <<>> THEN edge.child
    ELSE EdgeNode(None, child_height, [i \in DOMAIN old_path |-> 1 - old_path[i]],
                  edge.child)

\* MerkleTree::set, the existing child branch of the binary node (lines 309-340)
set_old(edge, common, child_height) ==
    LET old_path == SubSeq(edge.path, Len(common) + 2, Len(edge.path)) IN
    IF old_path = <<>> THEN edge.child
    ELSE EdgeNode(None, child_height, old_path, edge.child)

\* A binary node with the two branches on the wrong sides.
set_branch_swapped(key, branch_height, new, old) ==
    IF DirectionFrom(key[branch_height + 1]) = "left"
    THEN BinaryNode(None, branch_height, old, new)
    ELSE BinaryNode(None, branch_height, new, old)

\* A binary node with the new branch always on the left.
set_branch_new_left(key, branch_height, new, old) ==
    BinaryNode(None, branch_height, new, old)

\* MerkleTree::set, the binary node that parts the two branches (lines 342-348)
set_branch(key, branch_height, new, old) ==
    LET new_direction == DirectionFrom(key[branch_height + 1])
        left == IF new_direction = "left" THEN new ELSE old
        right == IF new_direction = "left" THEN old ELSE new
    IN BinaryNode(None, branch_height, left, right)

\* MerkleTree::set, the node that replaces the last node of the path (lines 298-366)
set_updated(node, key, value) ==
    CASE node.t = "Edge" ->
           LET common == common_path(node, key)
               branch_height == node.height + Len(common)
               child_height == branch_height + 1
               new == set_new(key, child_height, value)
               old == set_old(node, common, child_height)
               branch == set_branch(key, branch_height, new, old)
           IN IF common = <<>> THEN branch
              ELSE EdgeNode(None, node.height, common, branch)
      [] node.t = "Leaf" -> Leaf(value)
      [] OTHER -> Panic

\* An edge to the child on the side of the deleted key.
delete_new_edge_same_side(st, binary, key) ==
    LET dir == direction(binary, key) IN
    merge_edges(st, EdgeNode(None, binary.height, <<BitFrom(dir)>>, get_child(binary, dir)))

\* The replacement edge labelled with the height of the binary node's children
delete_new_edge_child_height(st, binary, key) ==
    LET dir == invert(direction(binary, key))
        child == get_child(binary, dir)
        path == <<BitFrom(dir)>>
        edge == EdgeNode(None, binary.height + 1, path, child)
    IN merge_edges(st, edge)

\* The binary node kept, with an empty placeholder where the deleted leaf was
delete_new_edge_binary_kept(st, binary, key) ==
    IF direction(binary, key) = "left"
    THEN BinaryNode(None, binary.height, Unresolved(ZERO), binary.right)
    ELSE BinaryNode(None, binary.height, binary.left, Unresolved(ZERO))

\* MerkleTree::delete_leaf, the edge that replaces the binary node (lines 427-442)
delete_new_edge(st, binary, key) ==
    LET dir == invert(direction(binary, key))
        child == get_child(binary, dir)
        path == <<BitFrom(dir)>>
        edge == EdgeNode(None, binary.height, path, child)
    IN merge_edges(st, edge)

\* delete_leaf's splice that leaves the root in place when no Binary node is
\* on the path
delete_splice_root_kept(st, tree, path, key) ==
    LET dirty == MarkDirtyAll(tree, path)
        binaries == {i \in 1 .. Len(path) : NodeAt(dirty, path[i]).t = "Binary"}
    IN IF binaries = {} THEN [root |-> dirty, ok |-> TRUE]
       ELSE
         LET i == CHOOSE b \in binaries : \A c \in binaries : c <= b
             new_edge == delete_new_edge(st, NodeAt(dirty, path[i]), key)
             swapped == ReplaceAt(dirty, path[i], new_edge)
         IN IF new_edge = Panic THEN [root |-> dirty, ok |-> FALSE]
            ELSE IF i > 1 /\ NodeAt(swapped, path[i - 1]).t = "Edge"
            THEN LET merged == merge_edges(st, NodeAt(swapped, path[i - 1])) IN
                 IF merged = Panic THEN [root |-> swapped, ok |-> FALSE]
                 ELSE [root |-> ReplaceAt(swapped, path[i - 1], merged), ok |-> TRUE]
            ELSE [root |-> swapped, ok |-> TRUE]

\* MerkleTree::delete_leaf once the leaf is found (lines 417-459)
delete_splice(st, tree, path, key) ==
    LET dirty == MarkDirtyAll(tree, path)
        binaries == {i \in 1 .. Len(path) : NodeAt(dirty, path[i]).t = "Binary"}
    IN IF binaries = {} THEN [root |-> Unresolved(ZERO), ok |-> TRUE]
       ELSE
         LET i == CHOOSE b \in binaries : \A c \in binaries : c <= b
             new_edge == delete_new_edge(st, NodeAt(dirty, path[i]), key)
             swapped == ReplaceAt(dirty, path[i], new_edge)
         IN IF new_edge = Panic THEN [root |-> dirty, ok |-> FALSE]
            ELSE IF i > 1 /\ NodeAt(swapped, path[i - 1]).t = "Edge"
            THEN LET merged == merge_edges(st, NodeAt(swapped, path[i - 1])) IN
                 IF merged = Panic THEN [root |-> swapped, ok |-> FALSE]
                 ELSE [root |-> ReplaceAt(swapped, path[i - 1], merged), ok |-> TRUE]
            ELSE [root |-> swapped, ok |-> TRUE]

\* A delete_leaf that does not stop when the key has no leaf.
delete_leaf_unchecked(st, tree, key) ==
    LET tr == traverse(st, tree, key) IN
    IF ~tr.ok THEN [root |-> tr.root, ok |-> FALSE]
    ELSE IF tr.nodes = <<>> THEN [root |-> tr.root, ok |-> TRUE]
    ELSE delete_splice(st, tr.root, tr.nodes, key)

\* MerkleTree::delete_leaf
delete_leaf(st, tree, key) ==
    LET tr == traverse(st, tree, key) IN
    IF ~tr.ok THEN [root |-> tr.root, ok |-> FALSE]
    ELSE IF tr.nodes = <<>> \/ NodeAt(tr.root, Last(tr.nodes)).t # "Leaf"
    THEN [root |-> tr.root, ok |-> TRUE]
    ELSE delete_splice(st, tr.root, tr.nodes, key)

\* MerkleTree::set once the value is known not to be ZERO (lines 272-385)
set_insert(st, tree, key, value) ==
    LET tr == traverse(st, tree, key) IN
    IF ~tr.ok THEN [root |-> tr.root, ok |-> FALSE]
    ELSE IF tr.nodes = <<>>
    THEN [root |-> EdgeNode(None, 0, key, Leaf(value)), ok |-> TRUE]
    ELSE
      LET dirty == MarkDirtyAll(tr.root, tr.nodes)
          node == Last(tr.nodes)
          updated == set_updated(NodeAt(dirty, node), key, value)
      IN IF updated = Panic THEN [root |-> dirty, ok |-> FALSE]
         ELSE [root |-> ReplaceAt(dirty, node, updated), ok |-> TRUE]

\* A set that stores ZERO like any other value.
set_zero_stored(st, tree, key, value) == set_insert(st, tree, key, value)

\* MerkleTree::set
set(st, tree, key, value) ==
    IF value = ZERO THEN delete_leaf(st, tree, key)
    ELSE set_insert(st, tree, key, value)

\* MerkleTree::get
get(st, tree, key) ==
    LET tr == traverse(st, tree, key)
        node == IF tr.ok /\ tr.nodes # <<>> THEN NodeAt(tr.root, Last(tr.nodes)) ELSE Panic
    IN [root |-> tr.root, ok |-> tr.ok,
        value |-> IF node.t = "Leaf" /\ node.value # ZERO THEN node.value ELSE None]

\* A commit_subtree that hashes a node's children without keeping their hashes.
RECURSIVE commit_subtree_hash_dropped(_, _)
commit_subtree_hash_dropped(st, node) ==
    CASE node.t \in {"Unresolved", "Leaf"} -> [node |-> node, st |-> st, calls |-> <<>>]
      [] node.t \in {"Binary", "Edge"} /\ node.hash # None ->
           [node |-> node, st |-> st, calls |-> <<>>]
      [] node.t = "Binary" ->
           LET l == commit_subtree_hash_dropped(st, node.left)
               r == commit_subtree_hash_dropped(l.st, node.right)
               left == hash(l.node)
               right == hash(r.node)
               h == binary_calculate_hash(left, right)
           IN [node |-> BinaryNode(h, node.height, node.left, node.right),
               st |-> upsert(r.st, h, PersistedBinaryNode(left, right)),
               calls |-> l.calls \o r.calls \o <<[call |-> "upsert", key |-> h]>>]
      [] node.t = "Edge" ->
           LET c == commit_subtree_hash_dropped(st, node.child)
               child == hash(c.node)
               h == edge_calculate_hash(child, node.path)
           IN [node |-> EdgeNode(h, node.height, node.path, node.child),
               st |-> upsert(c.st, h, PersistedEdgeNode(node.path, child)),
               calls |-> c.calls \o <<[call |-> "upsert", key |-> h]>>]

\* A commit_subtree that upserts a node before the nodes below it.
RECURSIVE commit_subtree_parent_first(_, _)
commit_subtree_parent_first(st, node) ==
    CASE node.t \in {"Unresolved", "Leaf"} -> [node |-> node, st |-> st, calls |-> <<>>]
      [] node.t \in {"Binary", "Edge"} /\ node.hash # None ->
           [node |-> node, st |-> st, calls |-> <<>>]
      [] node.t = "Binary" ->
           LET l == commit_subtree_parent_first(st, node.left)
               r == commit_subtree_parent_first(l.st, node.right)
               left == hash(l.node)
               right == hash(r.node)
               h == binary_calculate_hash(left, right)
           IN [node |-> BinaryNode(h, node.height, l.node, r.node),
               st |-> upsert(r.st, h, PersistedBinaryNode(left, right)),
               calls |-> <<[call |-> "upsert", key |-> h]>> \o l.calls \o r.calls]
      [] node.t = "Edge" ->
           LET c == commit_subtree_parent_first(st, node.child)
               child == hash(c.node)
               h == edge_calculate_hash(child, node.path)
           IN [node |-> EdgeNode(h, node.height, node.path, c.node),
               st |-> upsert(c.st, h, PersistedEdgeNode(node.path, child)),
               calls |-> <<[call |-> "upsert", key |-> h]>> \o c.calls]

\* MerkleTree::commit_subtree: the hashed subtree, the storage and the calls made
RECURSIVE commit_subtree(_, _)
commit_subtree(st, node) ==
    CASE node.t \in {"Unresolved", "Leaf"} -> [node |-> node, st |-> st, calls |-> <<>>]
      [] node.t \in {"Binary", "Edge"} /\ node.hash # None ->
           [node |-> node, st |-> st, calls |-> <<>>]
      [] node.t = "Binary" ->
           LET l == commit_subtree(st, node.left)
               r == commit_subtree(l.st, node.right)
               left == hash(l.node)
               right == hash(r.node)
               h == binary_calculate_hash(left, right)
           IN [node |-> BinaryNode(h, node.height, l.node, r.node),
               st |-> upsert(r.st, h, PersistedBinaryNode(left, right)),
               calls |-> l.calls \o r.calls \o <<[call |-> "upsert", key |-> h]>>]
      [] node.t = "Edge" ->
           LET c == commit_subtree(st, node.child)
               child == hash(c.node)
               h == edge_calculate_hash(child, node.path)
           IN [node |-> EdgeNode(h, node.height, node.path, c.node),
               st |-> upsert(c.st, h, PersistedEdgeNode(node.path, child)),
               calls |-> c.calls \o <<[call |-> "upsert", key |-> h]>>]

\* A commit_mut that counts a reference only when the commit persisted a node.
commit_mut_changed_only(st, tree) ==
    LET c == commit_subtree(st, tree)
        h == hash(c.node)
    IN IF c.calls = <<>>
       THEN [root |-> c.node, hash |-> h, st |-> c.st, calls |-> <<>>]
       ELSE [root |-> c.node, hash |-> h,
             st |-> increment_ref_count(c.st, h),
             calls |-> Append(c.calls, [call |-> "increment_ref_count", key |-> h])]

\* MerkleTree::commit_mut
commit_mut(st, tree) ==
    LET c == commit_subtree(st, tree)
        h == hash(c.node)
    IN [root |-> c.node, hash |-> h,
        st |-> increment_ref_count(c.st, h),
        calls |-> Append(c.calls, [call |-> "increment_ref_count", key |-> h])]

\* BinaryProofNode and EdgeProofNode
BinaryProofNode(left_hash, right_hash) ==
    [t |-> "Binary", left_hash |-> left_hash, right_hash |-> right_hash]
EdgeProofNode(path, child_hash) ==
    [t |-> "Edge", path |-> path, child_hash |-> child_hash]

\* From<&BinaryNode> for ProofNode with the two hashes swapped
ProofNode_from_binary_swapped(bin) ==
    IF hash(bin.left) = None \/ hash(bin.right) = None THEN Panic
    ELSE BinaryProofNode(hash(bin.right), hash(bin.left))

\* From<&BinaryNode> for ProofNode: expect() panics on a child without a hash
ProofNode_from_binary(bin) ==
    IF hash(bin.left) = None \/ hash(bin.right) = None THEN Panic
    ELSE BinaryProofNode(hash(bin.left), hash(bin.right))

\* From<&EdgeNode> for ProofNode that leaves the path out
ProofNode_from_edge_no_path(edge) ==
    IF hash(edge.child) = None THEN Panic
    ELSE EdgeProofNode(<<>>, hash(edge.child))

\* From<&EdgeNode> for ProofNode
ProofNode_from_edge(edge) ==
    IF hash(edge.child) = None THEN Panic
    ELSE EdgeProofNode(edge.path, hash(edge.child))

\* The closure get_proof maps over the nodes; unreachable!() panics
ProofNode_from(node) ==
    CASE node.t = "Binary" -> ProofNode_from_binary(node)
      [] node.t = "Edge" -> ProofNode_from_edge(node)
      [] OTHER -> Panic

\* get_proof that keeps the trailing Leaf among the nodes it converts
get_proof_leaf_kept(st, tree, key) ==
    LET tr == traverse(st, tree, key)
        proof == [i \in 1 .. Len(tr.nodes) |-> ProofNode_from(NodeAt(tr.root, tr.nodes[i]))]
    IN IF ~tr.ok THEN [root |-> tr.root, ok |-> FALSE, proof |-> <<>>]
       ELSE IF \E i \in DOMAIN proof : proof[i] = Panic
       THEN [root |-> tr.root, ok |-> FALSE, proof |-> <<>>]
       ELSE [root |-> tr.root, ok |-> TRUE, proof |-> proof]

\* MerkleTree::get_proof: the tree with the nodes the traversal resolved,
\* and the proof unless a conversion panicked
get_proof(st, tree, key) ==
    LET tr == traverse(st, tree, key)
        popped == IF tr.ok /\ tr.nodes # <<>> /\ NodeAt(tr.root, Last(tr.nodes)).t = "Leaf"
                  THEN SubSeq(tr.nodes, 1, Len(tr.nodes) - 1)
                  ELSE tr.nodes
        proof == [i \in 1 .. Len(popped) |-> ProofNode_from(NodeAt(tr.root, popped[i]))]
    IN IF ~tr.ok THEN [root |-> tr.root, ok |-> FALSE, proof |-> <<>>]
       ELSE IF \E i \in DOMAIN proof : proof[i] = Panic
       THEN [root |-> tr.root, ok |-> FALSE, proof |-> <<>>]
       ELSE [root |-> tr.root, ok |-> TRUE, proof |-> proof]

\* Option<X>, the return value of dfs
NoneX == [t |-> "None"]
SomeX(x) == [t |-> "Some", x |-> x]

\* A visitor function: ContinueDeeper at every call but the call number
\* `at`, where it returns `kind`: StopSubtree, or Break with the call number.
Visitors ==
    {[kind |-> "ContinueDeeper", at |-> 0]} \cup
    {[kind |-> k, at |-> n] : k \in {"StopSubtree", "Break"}, n \in 1 .. MaxAt}
visitor_fn(v, call) == IF call = v.at THEN v.kind ELSE "ContinueDeeper"

\* VisitedNode
VisitedNode(node, path) == [node |-> node, path |-> path]

\* What dfs pushes below a Binary node, with the left child pushed last
dfs_children_left_first(node, path) ==
    CASE node.t = "Binary" ->
           << VisitedNode(node.left, Append(path, BitFrom("left"))),
              VisitedNode(node.right, Append(path, BitFrom("right"))) >>
      [] node.t = "Edge" -> << VisitedNode(node.child, path \o node.path) >>
      [] OTHER -> << >>

\* What dfs pushes on `visiting` below a Binary, Edge or Leaf node: the right
\* child first, so that the left child is popped first
dfs_children(node, path) ==
    CASE node.t = "Binary" ->
           << VisitedNode(node.right, Append(path, BitFrom("right"))),
              VisitedNode(node.left, Append(path, BitFrom("left"))) >>
      [] node.t = "Edge" -> << VisitedNode(node.child, path \o node.path) >>
      [] OTHER -> << >>

\* The loop of MerkleTree::dfs. `events` lists, in order, the calls of the
\* visitor (with what it returned) and the calls of resolve. The pattern
\* Node::Unresolved(_zero) binds _zero anew, so it matches every Unresolved
\* node and the visitor is called on none of them.
RECURSIVE dfs_loop(_, _, _, _, _)
dfs_loop(st, visiting, events, calls, v) ==
    IF visiting = <<>> THEN [events |-> events, value |-> NoneX, ok |-> TRUE]
    ELSE
    LET node == Last(visiting).node
        path == Last(visiting).path
        rest == SubSeq(visiting, 1, Len(visiting) - 1)
        called == node.t # "Unresolved"
        decision == visitor_fn(v, calls + 1)
        visit == [e |-> "visit", node |-> node, path |-> path, decision |-> decision]
    IN
    IF called /\ decision = "StopSubtree"
    THEN dfs_loop(st, rest, Append(events, visit), calls + 1, v)
    ELSE IF called /\ decision = "Break"
    THEN [events |-> Append(events, visit), value |-> SomeX(calls + 1), ok |-> TRUE]
    ELSE IF called
    THEN dfs_loop(st, rest \o dfs_children(node, path), Append(events, visit), calls + 1, v)
    ELSE IF node.hash = ZERO
    THEN dfs_loop(st, rest, events, calls, v)
    ELSE LET resolved == resolve(st, node.hash, Len(path))
             event == [e |-> "resolve", node |-> node, path |-> path]
         IN IF resolved = Panic
            THEN [events |-> Append(events, event), value |-> NoneX, ok |-> FALSE]
            ELSE dfs_loop(st, Append(rest, VisitedNode(resolved, path)),
                          Append(events, event), calls, v)

\* MerkleTree::dfs
dfs(st, tree, v) == dfs_loop(st, << VisitedNode(tree, <<>>) >>, <<>>, 0, v)

---------------------------------------------------------------------------
(* The program: a tree over a storage, and its public operations *)

NoOp == [op |-> "new", prev |-> "none", key |-> <<>>, value |-> None,
         result |-> ZERO, before |-> ZERO, present |-> FALSE]

\* MerkleTree::empty over a storage that holds nothing yet
Init ==
    /\ root = Unresolved(ZERO)
    /\ storage = EmptyStorage
    /\ kv = [k \in Keys |-> ZERO]
    /\ last = NoOp
    /\ log = <<>>
    /\ roots = <<>>
    /\ aborted = FALSE
    /\ steps = 0

Running == ~aborted /\ steps < MaxOps

\* The root hash a commit of the tree would return.
CommitHash(st, tree) == commit_mut(st, tree).hash

\* A set that persists the tree it leaves.
Set_write_through(key, value) ==
    /\ Running
    /\ LET r == set(storage, root, key, value) IN
       /\ root' = r.root
       /\ aborted' = ~r.ok
       /\ storage' = commit_subtree(storage, r.root).st
    /\ last' = [op |-> "set", prev |-> last.op, key |-> key, value |-> value,
                result |-> None, before |-> CommitHash(storage, root),
                present |-> kv[key] # ZERO]
    /\ kv' = [kv EXCEPT ![key] = value]
    /\ log' = <<>>
    /\ steps' = steps + 1
    /\ UNCHANGED roots

\* set(key, value), a delete when value is ZERO
Set(key, value) ==
    /\ Running
    /\ LET r == set(storage, root, key, value) IN
       /\ root' = r.root
       /\ aborted' = ~r.ok
    /\ last' = [op |-> "set", prev |-> last.op, key |-> key, value |-> value,
                result |-> None, before |-> CommitHash(storage, root),
                present |-> kv[key] # ZERO]
    /\ kv' = [kv EXCEPT ![key] = value]
    /\ log' = <<>>
    /\ steps' = steps + 1
    /\ UNCHANGED <<storage, roots>>

\* get(key)
Get(key) ==
    /\ Running
    /\ LET r == get(storage, root, key) IN
       /\ root' = r.root
       /\ aborted' = ~r.ok
       /\ last' = [op |-> "get", prev |-> last.op, key |-> key, value |-> None,
                   result |-> r.value, before |-> CommitHash(storage, root),
                   present |-> kv[key] # ZERO]
    /\ log' = <<>>
    /\ steps' = steps + 1
    /\ UNCHANGED <<storage, kv, roots>>

\* commit_mut(): the tree stays in memory, hashed
CommitMut ==
    /\ Running
    /\ LET r == commit_mut(storage, root) IN
       /\ root' = r.root
       /\ storage' = r.st
       /\ log' = r.calls
       /\ last' = [op |-> "commit", prev |-> last.op, key |-> <<>>, value |-> None,
                   result |-> r.hash, before |-> CommitHash(storage, root),
                   present |-> FALSE]
       /\ roots' = (r.hash :> kv) @@ roots
    /\ steps' = steps + 1
    /\ UNCHANGED <<kv, aborted>>

\* commit(self): the tree is consumed; the program goes on with the tree that
\* MerkleTree::new builds over the same storage from the root hash returned
Commit ==
    /\ Running
    /\ LET r == commit_mut(storage, root) IN
       /\ root' = Unresolved(r.hash)
       /\ storage' = r.st
       /\ log' = r.calls
       /\ last' = [op |-> "commit", prev |-> last.op, key |-> <<>>, value |-> None,
                   result |-> r.hash, before |-> CommitHash(storage, root),
                   present |-> FALSE]
       /\ roots' = (r.hash :> kv) @@ roots
    /\ steps' = steps + 1
    /\ UNCHANGED <<kv, aborted>>

\* MerkleTree::new on the root hash of an earlier commit, or MerkleTree::empty:
\* the tree in memory is dropped for a tree of another version
New(h) ==
    /\ Running
    /\ root' = Unresolved(h)
    /\ kv' = IF h \in DOMAIN roots THEN roots[h] ELSE [k \in Keys |-> ZERO]
    /\ last' = [op |-> "new", prev |-> last.op, key |-> <<>>, value |-> None,
                result |-> h, before |-> CommitHash(storage, root), present |-> FALSE]
    /\ log' = <<>>
    /\ steps' = steps + 1
    /\ UNCHANGED <<storage, roots, aborted>>

Next ==
    \/ \E key \in Keys, value \in Values : Set(key, value)
    \/ \E key \in Keys : Get(key)
    \/ CommitMut
    \/ Commit
    \/ \E h \in DOMAIN roots \cup {ZERO} : New(h)

Spec == Init /\ [][Next]_vars

\* get_proof(key): a panic of the conversion ends the program
GetProof(key) ==
    /\ Running
    /\ LET r == get_proof(storage, root, key) IN
       /\ root' = r.root
       /\ aborted' = ~r.ok
       /\ last' = [op |-> "get_proof", prev |-> last.op, key |-> key, value |-> None,
                   result |-> r.proof, before |-> CommitHash(storage, root),
                   present |-> kv[key] # ZERO]
    /\ log' = <<>>
    /\ steps' = steps + 1
    /\ UNCHANGED <<storage, kv, roots>>

\* The program with proofs asked for between its other operations.
NextProof ==
    \/ Next
    \/ \E key \in Keys : GetProof(key)

SpecProof == Init /\ [][NextProof]_vars

\* dfs(visitor_fn): the walk resolves into nodes of its own, the tree is as
\* it was
Dfs(v) ==
    /\ Running
    /\ LET r == dfs(storage, root, v) IN
       /\ aborted' = ~r.ok
       /\ last' = [op |-> "dfs", prev |-> last.op, key |-> <<>>, value |-> None,
                   result |-> [visitor |-> v, events |-> r.events, value |-> r.value],
                   before |-> CommitHash(storage, root), present |-> FALSE]
    /\ log' = <<>>
    /\ steps' = steps + 1
    /\ UNCHANGED <<root, storage, kv, roots>>

\* The program with walks of the tree between its other operations.
NextDfs ==
    \/ Next
    \/ \E v \in Visitors : Dfs(v)

SpecDfs == Init /\ [][NextDfs]_vars

\* The program with every public operation.
NextAll ==
    \/ Next
    \/ \E key \in Keys : GetProof(key)
    \/ \E v \in Visitors : Dfs(v)

SpecAll == Init /\ [][NextAll]_vars

---------------------------------------------------------------------------
(* What the properties speak of *)

\* The tree with every Unresolved placeholder below it loaded from storage,
\* a placeholder at `depth` bits from the root being resolved at that height.
RECURSIVE Expand(_, _, _)
Expand(st, node, depth) ==
    CASE node.t = "Unresolved" ->
           IF is_empty(node) THEN node
           ELSE LET r == resolve(st, node.hash, depth) IN
                IF r = Panic THEN Panic ELSE Expand(st, r, depth)
      [] node.t = "Binary" ->
           [node EXCEPT !.left = Expand(st, @, depth + 1),
                        !.right = Expand(st, @, depth + 1)]
      [] node.t = "Edge" ->
           [node EXCEPT !.child = Expand(st, @, depth + Len(node.path))]
      [] OTHER -> node

\* The nodes of a tree, each with the number of bits consumed above it.
RECURSIVE Nodes(_, _)
Nodes(node, depth) ==
    {[node |-> node, depth |-> depth]} \cup
    CASE node.t = "Binary" -> Nodes(node.left, depth + 1) \cup Nodes(node.right, depth + 1)
      [] node.t = "Edge" -> Nodes(node.child, depth + Len(node.path))
      [] OTHER -> {}

\* The tree without its cached hashes and height labels: its shape.
RECURSIVE Shape(_)
Shape(node) ==
    CASE node.t = "Binary" -> <<"Binary", Shape(node.left), Shape(node.right)>>
      [] node.t = "Edge" -> <<"Edge", node.path, Shape(node.child)>>
      [] node.t = "Leaf" -> <<"Leaf", node.value>>
      [] node.t = "Unresolved" -> <<"Unresolved", node.hash>>
      [] OTHER -> <<"Panic">>

\* The keys of a map that start with `prefix`.
Under(m, prefix) ==
    {k \in DOMAIN m : m[k] # ZERO /\ SubSeq(k, 1, Len(prefix)) = prefix}

\* The tree the module documentation defines for a map: a leaf per key, a
\* binary node where the keys below a prefix part, and maximal edges between.
RECURSIVE Canon(_, _, _)
Canon(m, prefix, path) ==
    LET here == prefix \o path
        zero == Under(m, Append(here, 0))
        one == Under(m, Append(here, 1))
        below == IF Len(here) = MaxHeight
                 THEN <<"Leaf", m[here]>>
                 ELSE <<"Binary", Canon(m, Append(here, 0), <<>>),
                                  Canon(m, Append(here, 1), <<>>)>>
    IN IF Len(here) < MaxHeight /\ one = {} THEN Canon(m, prefix, Append(path, 0))
       ELSE IF Len(here) < MaxHeight /\ zero = {} THEN Canon(m, prefix, Append(path, 1))
       ELSE IF path = <<>> THEN below
       ELSE <<"Edge", path, below>>

CanonTree(m) ==
    IF Under(m, <<>>) = {} THEN <<"Unresolved", ZERO>> ELSE Canon(m, <<>>, <<>>)

\* The root hash of a shape, by the hash rules of commit.
RECURSIVE ShapeHash(_)
ShapeHash(s) ==
    CASE s[1] = "Binary" -> binary_calculate_hash(ShapeHash(s[2]), ShapeHash(s[3]))
      [] s[1] = "Edge" -> edge_calculate_hash(ShapeHash(s[3]), s[2])
      [] OTHER -> s[2]

\* What get returns for a key, as a field element (ZERO for None).
Lookup(st, tree, key) ==
    LET r == get(st, tree, key) IN
    IF ~r.ok THEN <<"panic">> ELSE IF r.value = None THEN ZERO ELSE r.value

\* The map a tree holds, as get reads it.
MapOf(st, tree) == [k \in Keys |-> Lookup(st, tree, k)]

Full == Expand(storage, root, 0)

\* The in-memory nodes, and the nodes once everything is loaded.
InMemory == Nodes(root, 0)
Loaded == Nodes(Full, 0)

Interior(n) == n.node.t \in {"Binary", "Edge"}
Inserted == last.op = "set" /\ last.value # ZERO
Deleted == last.op = "set" /\ last.value = ZERO

RefCount(st, h) == IF h \in DOMAIN st.refs THEN st.refs[h] ELSE 0

\* The tree that inserting the pairs of a map in the order `keys` builds.
RECURSIVE InsertAll(_, _, _)
InsertAll(tree, m, keys) ==
    IF keys = <<>> THEN tree
    ELSE InsertAll(set(EmptyStorage, tree, Head(keys), m[Head(keys)]).root, m, Tail(keys))

\* The keys a map holds, in ascending order.
RECURSIVE Ascending(_, _)
Ascending(m, i) ==
    IF i = NumKeys THEN <<>>
    ELSE IF m[IntToBits(i, MaxHeight)] # ZERO
    THEN <<IntToBits(i, MaxHeight)>> \o Ascending(m, i + 1)
    ELSE Ascending(m, i + 1)

---------------------------------------------------------------------------
(* Inserting distinct keys into an empty tree, in any order, then committing *)

DetInsert(key, value) ==
    /\ kv[key] = ZERO
    /\ value # ZERO
    /\ last.op # "commit"
    /\ Set(key, value)

DetCommit ==
    /\ last.op # "commit"
    /\ CommitMut

DetNext ==
    \/ \E key \in Keys, value \in Values : DetInsert(key, value)
    \/ DetCommit

SpecDet == Init /\ [][DetNext]_vars

---------------------------------------------------------------------------
(* Properties *)

\* C1: right after set(k, v) with v # ZERO, get(k) returns Some(v), in each of
\* the three insertion cases, and also when a commit (keeping the tree in
\* memory, or reloading it from the root hash) comes between the two.
C1_SetThenGet ==
    Inserted =>
        /\ ~aborted
        /\ Lookup(storage, root, last.key) = last.value
        /\ LET c == commit_mut(storage, root) IN
           /\ Lookup(c.st, c.root, last.key) = last.value
           /\ Lookup(c.st, Unresolved(c.hash), last.key) = last.value

\* An edge was split: a new key was set in a tree that held other keys.
C1_Witness ==
    /\ Inserted /\ ~last.present /\ last.before # ZERO
    /\ Lookup(storage, root, last.key) = last.value
    /\ \E n \in InMemory : n.node.t = "Binary" /\ n.node.hash = None

\* C2: set(k, ZERO) deletes: afterwards get(k) returns None, whether k was
\* present or not, and the in-memory tree never holds a Leaf of value ZERO.
C2_SetZeroDeletes ==
    /\ \A n \in InMemory : n.node.t = "Leaf" => n.node.value # ZERO
    /\ Deleted => ~aborted /\ Lookup(storage, root, last.key) = ZERO

\* A present key was set to ZERO and other keys remain.
C2_Witness ==
    /\ Deleted /\ last.present
    /\ Lookup(storage, root, last.key) = ZERO
    /\ \E k \in Keys : kv[k] # ZERO

\* C3: the root hash committed after inserting pairs of distinct keys and
\* non-zero values into an empty tree is the one that inserting the same
\* pairs in ascending key order gives: it does not depend on the order.
C3_OrderIndependent ==
    LET ascending == CommitHash(EmptyStorage,
                                InsertAll(Unresolved(ZERO), kv, Ascending(kv, 0)))
    IN /\ ~aborted
       /\ CommitHash(storage, root) = ascending
       /\ last.op = "commit" => last.result = ascending

\* Three keys were inserted, the smallest of them last.
C3_Witness ==
    /\ Inserted /\ last.key = IntToBits(0, MaxHeight)
    /\ Cardinality({k \in Keys : kv[k] # ZERO}) = 3
    /\ CommitHash(storage, root) # ZERO

\* C4: after set(k, v) of an absent key k with v # ZERO, set(k, ZERO) gives
\* a tree whose commit hash is the commit hash of the tree before the insert.
C4_InsertDeleteCancels ==
    (Inserted /\ ~last.present) =>
        /\ ~aborted
        /\ LET d == set(storage, root, last.key, ZERO) IN
           d.ok /\ CommitHash(storage, d.root) = last.before

\* A key was inserted into a non-empty tree loaded from storage, part of
\* which is still unresolved.
C4_Witness ==
    /\ Inserted /\ ~last.present /\ last.before # ZERO
    /\ \E n \in InMemory : n.node.t = "Unresolved"
    /\ CommitHash(storage, set(storage, root, last.key, ZERO).root) = last.before

\* C5: whatever the history of sets, deletes and commits, the fully resolved
\* tree is the canonical tree of the current map (same nodes, paths, heights)
\* and its commit hash is the hash of that canonical tree.
C5_HistoryIndependent ==
    ~aborted =>
        /\ Shape(Full) = CanonTree(kv)
        /\ \A n \in Loaded : Interior(n) => n.node.height = n.depth
        /\ CommitHash(storage, root) = ShapeHash(CanonTree(kv))

\* A key was deleted from a tree that had been committed before and still
\* holds a key.
C5_Witness ==
    /\ Deleted /\ last.present
    /\ roots # <<>>
    /\ Cardinality({k \in Keys : kv[k] # ZERO}) >= 1
    /\ Shape(Full) = CanonTree(kv)

\* C6: set(k, ZERO) of an absent key changes no structure, marks no node
\* dirty and leaves the map as it was (placeholders may get resolved); and a
\* second delete of a key right after the first changes nothing.
C6_DeleteAbsentNoOp ==
    [][ /\ (Deleted' /\ ~last'.present) =>
             /\ ~aborted'
             /\ Expand(storage, root', 0) = Expand(storage, root, 0)
             /\ MapOf(storage, root') = MapOf(storage, root)
        /\ Deleted' => set(storage, root', last'.key, ZERO) = [root |-> root', ok |-> TRUE]
      ]_vars

\* An absent key was deleted from a non-empty tree.
C6_Witness ==
    /\ Deleted /\ ~last.present /\ last.before # ZERO
    /\ CommitHash(storage, root) = last.before

\* C7: no Edge has an Edge as its child, in memory or once the placeholders
\* are resolved from storage.
C7_EdgeMaximality ==
    ~aborted =>
        \A n \in Loaded : n.node.t = "Edge" => n.node.child.t \notin {"Edge", "Panic"}

\* Right after a commit that left the whole tree in storage, a delete merged
\* the new edge with its Unresolved child, an Edge in storage (the two keys
\* part above the last bit), and then with the edge above.
C7_Witness ==
    /\ Deleted /\ last.present /\ last.prev = "commit"
    /\ root.t = "Edge" /\ root.hash = None
    /\ root.child.t = "Unresolved"
    /\ Len(root.path) = MaxHeight
    /\ root.path[1] = last.key[1]
    /\ root.path[2] # last.key[2]

\* C8: every Leaf is exactly MaxHeight bits below the root, a Binary
\* consuming one bit and an Edge the length of its path.
C8_FixedDepth ==
    ~aborted =>
        \A n \in Loaded : /\ n.node.t # "Panic"
                          /\ n.node.t = "Leaf" => n.depth = MaxHeight

\* An insert split an edge of a tree that now holds three leaves.
C8_Witness ==
    /\ Inserted /\ ~last.present
    /\ Cardinality({k \in Keys : kv[k] # ZERO}) = 3
    /\ \E n \in Loaded : n.node.t = "Leaf"
    /\ \A n \in Loaded : n.node.t = "Leaf" => n.depth = MaxHeight

\* C9: a commit leaves no Binary or Edge node dirty, and a commit that
\* follows a commit returns the same root hash and upserts nothing.
C9_CommitStable ==
    [][ /\ last'.op = "commit" =>
             \A n \in Nodes(root', 0) : Interior(n) => n.node.hash # None
        /\ (last.op = "commit" /\ last'.op = "commit") =>
             /\ last'.result = last.result
             /\ \A i \in DOMAIN log' : log'[i].call # "upsert"
      ]_vars

\* A non-empty tree kept in memory was committed twice in a row.
C9_Witness ==
    /\ last.op = "commit" /\ last.prev = "commit"
    /\ root.t \in {"Binary", "Edge"}
    /\ \A i \in DOMAIN log : log[i].call # "upsert"

\* C10: a commit makes one increment_ref_count call, its last storage call,
\* on the root hash it returns, and the count of that root goes up by one
\* each time; no count ever goes down.
C10_RefCounts ==
    [][ /\ last'.op = "commit" =>
             /\ log' # <<>>
             /\ Last(log') = [call |-> "increment_ref_count", key |-> last'.result]
             /\ \A i \in 1 .. Len(log') - 1 : log'[i].call = "upsert"
             /\ RefCount(storage', last'.result) = RefCount(storage, last'.result) + 1
        /\ \A h \in DOMAIN storage.refs :
             /\ RefCount(storage', h) >= RefCount(storage, h)
             /\ h # last'.result => RefCount(storage', h) = RefCount(storage, h)
        /\ \A i \in DOMAIN log' : log'[i].call \in {"upsert", "increment_ref_count"}
      ]_vars

\* The same root was committed twice in a row after upserts.
C10_Witness ==
    /\ last.op = "commit" /\ last.prev = "commit"
    /\ last.result # ZERO
    /\ RefCount(storage, last.result) = 2
    /\ Len(log) = 1

\* C11: every root hash an earlier commit returned stays readable: a tree
\* built on it over the storage as it is now loads without a storage miss,
\* holds for every key the value the map held at that commit, and its
\* records are those of that commit, whatever was set or committed since.
C11_OldRootsReadable ==
    \A r \in DOMAIN roots :
        LET old == Expand(storage, Unresolved(r), 0) IN
        /\ \A n \in Nodes(old, 0) : n.node.t # "Panic"
        /\ MapOf(storage, Unresolved(r)) = roots[r]
        /\ Shape(old) = CanonTree(roots[r])
        /\ ShapeHash(Shape(old)) = r

\* Two commits of different non-empty maps: the root of the older one is
\* not the root of the tree in memory, and still reads as its map.
C11_Witness ==
    /\ last.op = "commit"
    /\ \E r \in DOMAIN roots :
         /\ r # ZERO /\ r # last.result
         /\ roots[r] # kv
         /\ \E k \in Keys : roots[r][k] # ZERO /\ roots[r][k] # kv[k]
         /\ MapOf(storage, Unresolved(r)) = roots[r]

\* A tree no Binary or Edge node of which is dirty: committed, or loaded.
NoDirty(tree) == \A n \in Nodes(tree, 0) : Interior(n) => n.node.hash # None

\* The bits the first i records of a proof of `key` spell: the bit of the key
\* at its position for a Binary record, the whole path for an Edge record.
RECURSIVE ProofPath(_, _, _)
ProofPath(proof, key, i) ==
    IF i = 0 THEN <<>>
    ELSE LET above == ProofPath(proof, key, i - 1) IN
         IF proof[i].t = "Edge" THEN above \o proof[i].path
         ELSE IF Len(above) < Len(key) THEN Append(above, key[Len(above) + 1])
         ELSE Append(above, 2)

\* C12: on a tree without dirty nodes the proof of a present key is a list
\* of Binary and Edge records whose bits, root first, spell the key; the
\* proof of an absent key in a non-empty tree ends with an Edge record whose
\* path differs from the bits of the key at its position; no other kind of
\* record appears.
C12_ProofShape ==
    (~aborted /\ NoDirty(root)) =>
        \A k \in Keys :
            LET p == get_proof(storage, root, k)
                n == Len(p.proof)
                above == ProofPath(p.proof, k, n - 1)
            IN /\ p.ok
               /\ \A i \in 1 .. n : p.proof[i].t \in {"Binary", "Edge"}
               /\ kv[k] # ZERO => ProofPath(p.proof, k, n) = k
               /\ (kv[k] = ZERO /\ ~is_empty(root)) =>
                    /\ n > 0
                    /\ p.proof[n].t = "Edge"
                    /\ p.proof[n].path #
                         SubSeq(k, Len(above) + 1, Len(above) + Len(p.proof[n].path))

\* The proof of a present key of a committed tree went through a Binary and
\* an Edge record.
C12_Witness ==
    /\ last.op = "get_proof" /\ last.present /\ ~aborted
    /\ NoDirty(root)
    /\ \E i \in DOMAIN last.result : last.result[i].t = "Binary"
    /\ \E i \in DOMAIN last.result : last.result[i].t = "Edge"
    /\ ProofPath(last.result, last.key, Len(last.result)) = last.key

\* What a verifier computes for record i of a proof of (key, value), folding
\* from the last record: the value below the last record, the Binary or Edge
\* hash of a record whose child hash on the side of the key is the value
\* computed below it, and <<-1>> once a record does not chain.
RECURSIVE ProofFold(_, _, _, _)
ProofFold(proof, key, value, i) ==
    IF i > Len(proof) THEN value
    ELSE LET below == ProofFold(proof, key, value, i + 1)
             pos == Len(ProofPath(proof, key, i - 1))
             rec == proof[i]
         IN IF below = <<-1>> THEN <<-1>>
            ELSE IF rec.t = "Edge"
            THEN IF rec.child_hash = below
                 THEN edge_calculate_hash(rec.child_hash, rec.path)
                 ELSE <<-1>>
            ELSE IF pos < Len(key) /\
                    below = (IF DirectionFrom(key[pos + 1]) = "left"
                             THEN rec.left_hash ELSE rec.right_hash)
            THEN binary_calculate_hash(rec.left_hash, rec.right_hash)
            ELSE <<-1>>

\* C13: on a tree without dirty nodes, folding the proof of a present key
\* from its value up through the records, each record's child hash being
\* the value computed below it, gives the root hash commit returns.
C13_ProofChain ==
    (~aborted /\ NoDirty(root)) =>
        /\ \A k \in Keys :
             kv[k] # ZERO =>
                ProofFold(get_proof(storage, root, k).proof, k, kv[k], 1)
                    = CommitHash(storage, root)
        /\ last.op = "commit" => CommitHash(storage, root) = last.result

\* A proof of two records or more, asked for right after a commit, folds to
\* the root hash that commit returned.
C13_Witness ==
    /\ last.op = "get_proof" /\ last.prev = "commit" /\ last.present /\ ~aborted
    /\ Len(last.result) >= 2
    /\ \E i \in DOMAIN last.result : last.result[i].t = "Binary"
    /\ ProofFold(last.result, last.key, kv[last.key], 1) = last.before

\* A Binary or Edge node without a cached hash.
IsDirty(node) == node.t \in {"Binary", "Edge"} /\ node.hash = None

\* Some node the traversal of `key` visits has a dirty Binary or Edge node
\* as a direct child.
DirtyChildOnPath(st, tree, key) ==
    LET tr == traverse(st, tree, key) IN
    \E i \in DOMAIN tr.nodes :
        LET node == NodeAt(tr.root, tr.nodes[i]) IN
        \/ node.t = "Binary" /\ (IsDirty(node.left) \/ IsDirty(node.right))
        \/ node.t = "Edge" /\ IsDirty(node.child)

\* C14: get_proof of a key panics exactly when a node on the traversal path
\* of the key has a dirty Binary or Edge node as a direct child, and
\* otherwise returns a record for every Binary and Edge node of the path;
\* it never panics on a tree without dirty nodes, and a panic of get_proof
\* happened on a tree with such a child on the path.
C14_ProofAborts ==
    /\ \A k \in Keys :
         LET p == get_proof(storage, root, k)
             tr == traverse(storage, root, k)
             interior == {i \in DOMAIN tr.nodes :
                            NodeAt(tr.root, tr.nodes[i]).t \in {"Binary", "Edge"}}
         IN /\ p.ok <=> ~DirtyChildOnPath(storage, root, k)
            /\ p.ok => Len(p.proof) = Cardinality(interior)
            /\ NoDirty(root) => p.ok
    /\ (aborted /\ last.op = "get_proof") =>
         /\ DirtyChildOnPath(storage, root, last.key)
         /\ last.result = <<>>

\* get_proof panicked right after a set left a dirty node below a node of
\* the path.
C14_Witness ==
    /\ aborted /\ last.op = "get_proof" /\ last.prev = "set"
    /\ DirtyChildOnPath(storage, root, last.key)

\* C15: in a dfs, every Unresolved node with a non-zero hash that the walk
\* resolves was passed to the visitor before, with the same path, and the
\* visitor returned ContinueDeeper for it.
C15_UnresolvedVisited ==
    last.op = "dfs" =>
        LET ev == last.result.events IN
        \A i \in DOMAIN ev :
            ev[i].e = "resolve" =>
                \E j \in 1 .. i - 1 :
                    /\ ev[j].e = "visit"
                    /\ ev[j].node = ev[i].node
                    /\ ev[j].path = ev[i].path
                    /\ ev[j].decision = "ContinueDeeper"

\* What the visitor is shown of a node: its kind and path, the value of a
\* Leaf and the path of an Edge.
Sig(node, path) ==
    [t |-> node.t, path |-> path,
     label |-> IF node.t = "Leaf" THEN node.value
               ELSE IF node.t = "Edge" THEN node.path ELSE <<>>]

\* The nodes of a loaded tree in pre-order, the left child of a Binary first,
\* each with the bits from the root to it.
RECURSIVE PreOrder(_, _)
PreOrder(node, path) ==
    CASE node.t = "Binary" ->
           <<Sig(node, path)>> \o PreOrder(node.left, Append(path, 0))
                               \o PreOrder(node.right, Append(path, 1))
      [] node.t = "Edge" ->
           <<Sig(node, path)>> \o PreOrder(node.child, path \o node.path)
      [] node.t = "Leaf" -> <<Sig(node, path)>>
      [] OTHER -> <<>>

IsPrefix(p, q) == Len(p) <= Len(q) /\ SubSeq(q, 1, Len(p)) = p

\* The visitor calls among the events of a walk from event i on, in order.
RECURSIVE VisitsOf(_, _)
VisitsOf(events, i) ==
    IF i > Len(events) THEN <<>>
    ELSE IF events[i].e = "visit" THEN <<events[i]>> \o VisitsOf(events, i + 1)
    ELSE VisitsOf(events, i + 1)

\* A pre-order list from entry i on without the entries below entry n: those
\* after it whose path extends its path.
RECURSIVE WithoutBelow(_, _, _)
WithoutBelow(all, n, i) ==
    IF i > Len(all) THEN <<>>
    ELSE IF i > n /\ IsPrefix(all[n].path, all[i].path) THEN WithoutBelow(all, n, i + 1)
    ELSE <<all[i]>> \o WithoutBelow(all, n, i + 1)

\* C16: the visitor calls of a dfs are the nodes of the loaded tree in
\* pre-order, left before right, each with its exact bit path (of the length
\* of the node's height; the leaves come in ascending key order with the
\* values of the map); after Break at call n the walk ends there with
\* Some(n); after StopSubtree at call n exactly the nodes below that node are
\* left out; without a Break the walk returns None.
C16_PreOrder ==
    (last.op = "dfs" /\ ~aborted) =>
        LET ev == last.result.events
            v == last.result.visitor
            visits == VisitsOf(ev, 1)
            seen == [i \in DOMAIN visits |-> Sig(visits[i].node, visits[i].path)]
            all == PreOrder(Full, <<>>)
            n == v.at
            answered == v.kind # "ContinueDeeper" /\ n <= Len(all)
            leaves == {i \in DOMAIN all : all[i].t = "Leaf"}
        IN /\ \A i \in DOMAIN visits :
                /\ visits[i].node.t \in {"Binary", "Edge"} =>
                       visits[i].node.height = Len(visits[i].path)
                /\ visits[i].decision = visitor_fn(v, i)
           /\ \A i \in leaves : /\ Len(all[i].path) = MaxHeight
                                /\ all[i].label = kv[all[i].path]
           /\ \A i, j \in leaves :
                i < j => BitsToInt(all[i].path) < BitsToInt(all[j].path)
           /\ ~answered => seen = all /\ last.result.value = NoneX
           /\ (answered /\ v.kind = "Break") =>
                /\ seen = SubSeq(all, 1, n)
                /\ last.result.value = SomeX(n)
                /\ ev[Len(ev)].e = "visit"
           /\ (answered /\ v.kind = "StopSubtree") =>
                /\ seen = WithoutBelow(all, n, 1)
                /\ last.result.value = NoneX

\* A walk of a loaded tree of two keys or more whose visitor stopped at a
\* node with nodes below it and went on to the nodes after it.
C16_Witness ==
    /\ last.op = "dfs" /\ ~aborted
    /\ last.result.visitor.kind = "StopSubtree"
    /\ LET ev == last.result.events
           n == last.result.visitor.at
           all == PreOrder(Full, <<>>)
       IN /\ \E i \in DOMAIN ev : ev[i].e = "resolve"
          /\ n < Len(all)
          /\ IsPrefix(all[n].path, all[n + 1].path)
          /\ \E i \in DOMAIN ev :
               /\ ev[i].e = "visit"
               /\ ev[i].node.t = "Leaf"
               /\ ~IsPrefix(all[n].path, ev[i].path)

\* C17: the root is Unresolved(ZERO) exactly when the map holds no key; on
\* such a tree commit returns ZERO, get returns None and get_proof returns
\* the empty list for every key; MerkleTree::empty makes no storage call.
C17_EmptyRoot ==
    ~aborted =>
        /\ is_empty(root) <=> \A k \in Keys : kv[k] = ZERO
        /\ is_empty(root) =>
             /\ CommitHash(storage, root) = ZERO
             /\ \A k \in Keys :
                  /\ get(storage, root, k).ok
                  /\ get(storage, root, k).value = None
                  /\ get_proof(storage, root, k).ok
                  /\ get_proof(storage, root, k).proof = <<>>
        /\ (last.op = "commit" /\ \A k \in Keys : kv[k] = ZERO) => last.result = ZERO
        /\ (last.op = "new" /\ last.result = ZERO) => log = <<>> /\ is_empty(root)

\* Two keys were set and then deleted: the second delete emptied the tree.
C17_Witness ==
    /\ Deleted /\ last.present /\ last.prev = "set" /\ steps = 4
    /\ is_empty(root)
    /\ storage = EmptyStorage

\* C18: no operation panics, and for every key traverse returns the empty
\* list iff the tree is empty, and otherwise a chain of handles from the
\* root, each the child of the one before, that ends at the Leaf of the key
\* iff the key is present and at an Edge whose path differs from the bits of
\* the key at its height iff the key is absent; it never ends at a Binary or
\* an Unresolved node.
C18_TraversalTerminus ==
    /\ ~aborted
    /\ \A k \in Keys :
         LET tr == traverse(storage, root, k)
             n == Len(tr.nodes)
             term == NodeAt(tr.root, tr.nodes[n])
         IN /\ tr.ok
            /\ n = 0 <=> is_empty(root)
            /\ n > 0 =>
                 /\ tr.nodes[1] = <<>>
                 /\ \A i \in 1 .. n - 1 :
                      LET parent == NodeAt(tr.root, tr.nodes[i]) IN
                      \/ /\ parent.t = "Binary"
                         /\ tr.nodes[i + 1] = Append(tr.nodes[i], direction(parent, k))
                      \/ /\ parent.t = "Edge"
                         /\ tr.nodes[i + 1] = Append(tr.nodes[i], "child")
                 /\ term.t \in {"Leaf", "Edge"}
                 /\ term.t = "Leaf" <=> kv[k] # ZERO
                 /\ term.t = "Leaf" => term.value = kv[k]
                 /\ term.t = "Edge" => ~path_matches(term, k)
                 /\ \A v \in Values \ {ZERO} : set_updated(term, k, v) # Panic

\* A get of an absent key stopped at an Edge below the root of a tree that
\* was loaded from storage on the way.
C18_Witness ==
    /\ last.op = "get" /\ last.prev = "commit" /\ ~last.present /\ last.result = None
    /\ LET tr == traverse(storage, root, last.key) IN
       /\ Len(tr.nodes) >= 2
       /\ NodeAt(tr.root, Last(tr.nodes)).t = "Edge"
       /\ NodeAt(tr.root, <<>>).t = "Binary"

\* The hash of a Binary or Edge node by its calculate_hash, from the hashes
\* of its children as they are.
CanonicalHash(node) ==
    IF node.t = "Binary"
    THEN binary_calculate_hash(hash(node.left), hash(node.right))
    ELSE edge_calculate_hash(hash(node.child), node.path)

\* C19: a Binary or Edge node with a cached hash, in memory or loaded from
\* storage, has the hash of its present contents: H(left.hash, right.hash)
\* for a Binary, H(child.hash, path) + path.len() for an Edge, and with
\* everything below it loaded the hash of the whole subtree as it is now.
C19_NoStaleHash ==
    ~aborted =>
        /\ \A n \in InMemory \cup Loaded :
             (Interior(n) /\ n.node.hash # None) => n.node.hash = CanonicalHash(n.node)
        /\ \A n \in Loaded :
             (Interior(n) /\ n.node.hash # None) => n.node.hash = ShapeHash(Shape(n.node))

\* An insert into a tree that commit_mut had hashed: the path to the new
\* leaf is dirty and a node off the path keeps its hash.
C19_Witness ==
    /\ Inserted /\ ~last.present /\ last.prev = "commit"
    /\ root.t = "Binary" /\ root.hash = None
    /\ \E n \in InMemory : Interior(n) /\ n.node.hash # None

\* The handles of the nodes of a tree: the root is <<>>, a child is its
\* parent's handle with "left", "right" or "child" appended.
RECURSIVE Handles(_, _)
Handles(node, addr) ==
    {addr} \cup
    CASE node.t = "Binary" -> Handles(node.left, Append(addr, "left"))
                              \cup Handles(node.right, Append(addr, "right"))
      [] node.t = "Edge" -> Handles(node.child, Append(addr, "child"))
      [] OTHER -> {}

\* C20: between operations, every ancestor of a dirty Binary or Edge node,
\* up to the root, is dirty too; after a commit no node is dirty.
C20_DirtyPropagation ==
    ~aborted =>
        /\ \A a \in Handles(root, <<>>) :
             IsDirty(NodeAt(root, a)) =>
                \A i \in 0 .. Len(a) - 1 : IsDirty(NodeAt(root, SubSeq(a, 1, i)))
        /\ last.op = "commit" => NoDirty(root)

\* An insert split an edge below the root of a tree that commit_mut had
\* hashed: a node two handles below the root is dirty, its ancestors with
\* it, and a node off the path is not.
C20_Witness ==
    /\ Inserted /\ ~last.present /\ last.prev = "commit"
    /\ \E a \in Handles(root, <<>>) : Len(a) >= 2 /\ IsDirty(NodeAt(root, a))
    /\ \E a \in Handles(root, <<>>) :
         /\ NodeAt(root, a).t \in {"Binary", "Edge"}
         /\ ~IsDirty(NodeAt(root, a))

\* The height a node carries, for the kinds of node that carry one.
HeightOk(node, h) == node.t \in {"Binary", "Edge"} => node.height = h

\* C21: every Binary or Edge node, in memory or loaded, carries as height
\* the number of bits between the root and it; the children of a Binary at
\* height h carry h + 1, the child of an Edge at height h with a path of k
\* bits carries h + k.
C21_HeightLabels ==
    ~aborted =>
        \A n \in InMemory \cup Loaded :
            /\ HeightOk(n.node, n.depth)
            /\ n.node.t = "Binary" =>
                 /\ HeightOk(n.node.left, n.node.height + 1)
                 /\ HeightOk(n.node.right, n.node.height + 1)
            /\ n.node.t = "Edge" =>
                 HeightOk(n.node.child, n.node.height + Len(n.node.path))

\* A delete replaced the root Binary by an Edge to the surviving child, itself
\* a Binary with Edge nodes below it.
C21_Witness ==
    /\ Deleted /\ last.present
    /\ root.t = "Edge" /\ root.height = 0
    /\ root.child.t = "Binary" /\ root.child.height = Len(root.path)
    /\ root.child.left.t = "Edge"
    /\ root.child.left.height = root.child.height + 1

\* A loaded subtree holds a key: a Leaf with a value other than ZERO.
RECURSIVE HoldsKey(_)
HoldsKey(node) ==
    CASE node.t = "Binary" -> HoldsKey(node.left) \/ HoldsKey(node.right)
      [] node.t = "Edge" -> HoldsKey(node.child)
      [] node.t = "Leaf" -> node.value # ZERO
      [] OTHER -> FALSE

\* C22: neither child of a Binary node, in memory or loaded, is
\* Unresolved(ZERO), and once loaded each child holds a key: no delete leaves
\* a Binary with one child.
C22_BinaryNonDegenerate ==
    ~aborted =>
        /\ \A n \in InMemory \cup Loaded :
             n.node.t = "Binary" => ~is_empty(n.node.left) /\ ~is_empty(n.node.right)
        /\ \A n \in Loaded :
             n.node.t = "Binary" => HoldsKey(n.node.left) /\ HoldsKey(n.node.right)

\* A delete took one of three keys out and the tree still parts the two
\* others at a Binary node.
C22_Witness ==
    /\ Deleted /\ last.present /\ last.prev = "set"
    /\ Cardinality({k \in Keys : kv[k] # ZERO}) = 2
    /\ \E n \in InMemory : n.node.t = "Binary"
    /\ \A n \in InMemory :
         n.node.t = "Binary" => HoldsKey(n.node.left) /\ HoldsKey(n.node.right)

\* The hash of a subtree by the hash rules, whatever is cached in it.
TrueHash(node) == ShapeHash(Shape(node))

\* The dirty Binary and Edge nodes of a tree, each after the dirty nodes below
\* it and the left side of a Binary before its right side, with the key and
\* the record each is to be stored under; nothing below a clean node.
RECURSIVE DirtyPostOrder(_)
DirtyPostOrder(node) ==
    IF ~IsDirty(node) THEN <<>>
    ELSE IF node.t = "Binary"
    THEN DirtyPostOrder(node.left) \o DirtyPostOrder(node.right) \o
         <<[key |-> TrueHash(node),
            record |-> PersistedBinaryNode(TrueHash(node.left), TrueHash(node.right))]>>
    ELSE DirtyPostOrder(node.child) \o
         <<[key |-> TrueHash(node),
            record |-> PersistedEdgeNode(node.path, TrueHash(node.child))]>>

\* C23: the upsert calls of a commit are, one call each, the dirty Binary and
\* Edge nodes of the tree with the dirty nodes below a node before it, each
\* under its own hash with the record of its children's hashes; nothing else
\* is upserted and nothing else gets into the storage.
C23_CommitPersistsDirty ==
    [][ last'.op = "commit" =>
          LET dirty == DirtyPostOrder(root) IN
          /\ Len(log') = Len(dirty) + 1
          /\ \A i \in DOMAIN dirty :
                /\ log'[i] = [call |-> "upsert", key |-> dirty[i].key]
                /\ dirty[i].key \in DOMAIN storage'.nodes
                /\ storage'.nodes[dirty[i].key] = dirty[i].record
          /\ DOMAIN storage'.nodes =
                DOMAIN storage.nodes \cup {dirty[i].key : i \in DOMAIN dirty}
          /\ \A h \in DOMAIN storage.nodes : storage'.nodes[h] = storage.nodes[h]
      ]_vars

\* A commit of a dirty Binary over two dirty Edges made three upserts, the
\* root's last.
C23_Witness ==
    /\ last.op = "commit" /\ last.prev = "set"
    /\ Len(log) = 4
    /\ \A i \in 1 .. 3 : log[i].call = "upsert"
    /\ log[3].key = last.result
    /\ log[1].key # last.result /\ log[2].key # last.result
    /\ storage.nodes[last.result].t = "Binary"

\* The keys of the records a tree loaded from one of the roots `rs` reaches.
ReachableFrom(st, rs) ==
    UNION {{n.node.hash : n \in {m \in Nodes(Expand(st, Unresolved(r), 0), 0) : Interior(m)}}
             : r \in rs}

\* C24: only a commit calls the storage: every other operation leaves the
\* storage as it was and logs no call; so every record the storage holds is
\* reached from a root some commit returned, and nodes made and removed
\* between two commits are in no record.
C24_OnlyCommitWrites ==
    [][ /\ last'.op # "commit" => storage' = storage /\ log' = <<>>
        /\ DOMAIN storage'.nodes \subseteq ReachableFrom(storage', DOMAIN roots')
        /\ DOMAIN storage'.refs \subseteq DOMAIN roots'
      ]_vars

\* Two keys were set and one deleted again, with nothing committed: the
\* storage is still empty.
C24_Witness ==
    /\ Deleted /\ last.present /\ last.prev = "set" /\ steps = 3
    /\ Cardinality({k \in Keys : kv[k] # ZERO}) = 1
    /\ root.t = "Edge"
    /\ storage = EmptyStorage
    /\ log = <<>>

\* The storage.get calls the loop of traverse can make for a key: one for
\* each Unresolved handle it meets (for a node at max_height resolve reads
\* the storage in a debug build only; it is counted).
RECURSIVE traverse_gets(_, _, _, _, _)
traverse_gets(st, tree, current, height, dst) ==
    LET cur == NodeAt(tree, current) IN
    CASE is_empty(cur) -> 0
      [] cur.t = "Unresolved" ->
           LET node == resolve(st, cur.hash, height) IN
           IF node = Panic THEN 1
           ELSE 1 + traverse_gets(st, ReplaceAt(tree, current, node), current, height, dst)
      [] cur.t = "Binary" ->
           traverse_gets(st, tree, Append(current, direction(cur, dst)), height + 1, dst)
      [] cur.t = "Edge" /\ path_matches(cur, dst) ->
           traverse_gets(st, tree, Append(current, "child"), height + Len(cur.path), dst)
      [] OTHER -> 0

\* C25: traverse puts the node it resolves at the handle that held the
\* placeholder: the tree it leaves loads to the same tree as before, every
\* node on the path is resolved in it, and a second traverse of the same key
\* reads no record and changes nothing.
C25_ResolvedInPlace ==
    ~aborted =>
        \A k \in Keys :
            LET tr == traverse(storage, root, k)
                again == traverse(storage, tr.root, k)
            IN /\ tr.ok
               /\ traverse_gets(storage, tr.root, <<>>, 0, k) = 0
               /\ again.root = tr.root /\ again.nodes = tr.nodes
               /\ Expand(storage, tr.root, 0) = Full
               /\ \A i \in DOMAIN tr.nodes :
                    LET node == NodeAt(tr.root, tr.nodes[i]) IN
                    /\ node.t # "Unresolved"
                    /\ (tr.nodes[i] \in Handles(root, <<>>)
                          /\ NodeAt(root, tr.nodes[i]).t = "Unresolved") =>
                         hash(node) = NodeAt(root, tr.nodes[i]).hash

\* A get on a tree loaded from storage resolved the path of its key and left
\* a placeholder off the path; the same get again reads no record.
C25_Witness ==
    /\ last.op = "get" /\ last.prev = "commit" /\ last.present
    /\ root.t = "Binary" /\ root.hash = last.before
    /\ \E a \in Handles(root, <<>>) :
         NodeAt(root, a).t = "Unresolved" /\ Len(a) = 1
    /\ traverse_gets(storage, root, <<>>, 0, last.key) = 0
    /\ traverse_gets(storage, Unresolved(last.before), <<>>, 0, last.key) >= 2

\* C26: in every reachable tree, a set of any key to any value, ZERO
\* included, does not panic and leaves what get returns for every other key
\* as it was.
C26_MutationFrame ==
    ~aborted =>
        \A k \in Keys, v \in Values :
            LET r == set(storage, root, k, v) IN
            /\ r.ok
            /\ \A other \in Keys \ {k} :
                 Lookup(storage, r.root, other) = Lookup(storage, root, other)

\* An insert split an edge of a tree loaded from storage and hung the old
\* child, still a placeholder, under the new Binary: the two keys below it
\* read as before.
C26_Witness ==
    /\ Inserted /\ ~last.present /\ last.prev = "commit"
    /\ Cardinality({k \in Keys : kv[k] # ZERO}) = 3
    /\ \E n \in InMemory : n.node.t = "Unresolved" /\ n.depth < MaxHeight
    /\ \A other \in Keys \ {last.key} : Lookup(storage, root, other) = kv[other]

\* The read operations.
Reads == {"get", "get_proof", "dfs"}

\* The upsert calls a commit of a tree would make.
Upserts(st, tree) ==
    LET calls == commit_mut(st, tree).calls IN
    {i \in DOMAIN calls : calls[i].call = "upsert"}

\* C27: a get, get_proof or dfs changes neither the map nor the storage,
\* clears no cached hash and leaves the root hash a commit would return; on
\* a tree without dirty nodes it leaves no dirty node, so that a commit after
\* reads upserts nothing and returns the root hash of before the reads.
C27_ReadsKeepClean ==
    [][ /\ last'.op \in Reads =>
             /\ kv' = kv /\ storage' = storage
             /\ MapOf(storage', root') = MapOf(storage, root)
             /\ CommitHash(storage', root') = CommitHash(storage, root)
             /\ \A a \in Handles(root, <<>>) :
                  (NodeAt(root, a).t \in {"Binary", "Edge"}
                     /\ NodeAt(root, a).hash # None) =>
                       NodeAt(root', a).hash = NodeAt(root, a).hash
             /\ NoDirty(root) => /\ NoDirty(root')
                                 /\ Upserts(storage', root') = {}
        /\ (last'.op = "commit" /\ last.op \in Reads /\ NoDirty(root)) =>
             /\ last'.result = last.before
             /\ \A i \in DOMAIN log' : log'[i].call # "upsert"
      ]_vars

\* A tree loaded from storage was read, which resolved its root, and then
\* committed with no upsert and the root hash it was loaded from.
C27_Witness ==
    /\ last.op = "commit" /\ last.prev \in Reads
    /\ root.t \in {"Binary", "Edge"}
    /\ \E n \in InMemory : n.node.t = "Unresolved"
    /\ Len(log) = 1
    /\ last.result = last.before
    /\ RefCount(storage, last.result) = 2

=============================================================================
